---- MODULE Spec2Model ----
(***************************************************************************)
(* Model of scripts/verify_cmake_configs.py: one run of main(argv).        *)
(*                                                                         *)
(* Names (config identifiers, file names) are sequences of one-character   *)
(* strings, so that sorting and path joining are computed on the text.     *)
(* A path is a sequence of components.  The value "" of args.generator     *)
(* stands for None (both are falsy in `if args.generator:`).               *)
(***************************************************************************)
EXTENDS Integers, Sequences, FiniteSets

VARIABLES
    args,            \* argparse namespace: configs, generator, clean
    env,             \* what the run finds on disk when it starts
    pc,              \* position of main()
    generators,      \* result of query_available_generators()
    buildRootExists, \* build_root.exists()
    buildDirs,       \* directories currently present below build_root
    configs,         \* list_configs(...) result
    idx,             \* loop position in `for cfg in configs` (1-based)
    build_dir,       \* configure_config's build_dir
    ok,              \* configure_config's first return value
    output,          \* configure_config's second return value
    successes,
    failures,
    running,         \* child processes started and not yet reaped
    outcomes,        \* what the external tool did at each invocation
    calls,           \* file-system and process calls issued, in order
    stdout,          \* lines/blocks printed to standard output, in order
    stderr,          \* kind of the message written to standard error
    exitCode         \* process exit status (NoExit while running)

vars == <<args, env, pc, generators, buildRootExists, buildDirs, configs, idx,
          build_dir, ok, output, successes, failures, running, outcomes,
          calls, stdout, stderr, exitCode>>

----------------------------------------------------------------------------
(* Bounds and input alphabets *)

\* longest explicit identifier list given on the command line
MaxConfigs == 2

NoExit == 0 - 1

NameA == <<"a">>
NameB == <<"b">>
NameC == <<"c">>
NameDotA == <<".", "/", "a">>

FileNames == {NameA, NameB, NameC}
Identifiers == {NameA, NameB, NameDotA}
GeneratorNames == {"Ninja", "Xcode"}
Tools == {"ninja", "make"}
EntryKinds == {"absent", "file", "dir"}
ProbeFailures == {"OSError", "CalledProcessError", "JSONDecodeError"}

\* What `cmake -E capabilities` can do: fail in one of three ways
\* (error # ""), or print JSON that lists the generators `names`.
Probes == [error : ProbeFailures \cup {""}, names : SUBSET GeneratorNames]

SeqsUpTo(S, n) == UNION {[1..k -> S] : k \in 0..n}

BuildRoot == << <<"cmake-config-check">> >>

----------------------------------------------------------------------------
(* Text helpers *)

Ord(c) ==
    CASE c = "." -> 46
      [] c = "/" -> 47
      [] c = "a" -> 97
      [] c = "b" -> 98
      [] c = "c" -> 99

Min(a, b) == IF a < b THEN a ELSE b

\* Python's str ordering: first differing character decides, a proper
\* prefix sorts first.
StrLess(s, t) ==
    \E k \in 0..Min(Len(s), Len(t)) :
        /\ \A i \in 1..k : s[i] = t[i]
        /\ \/ (k = Len(s) /\ k < Len(t))
           \/ (k < Len(s) /\ k < Len(t) /\ Ord(s[k + 1]) < Ord(t[k + 1]))

RECURSIVE sorted(_)
sorted(S) ==
    IF S = {} THEN <<>>
    ELSE LET m == CHOOSE x \in S : \A y \in S \ {x} : StrLess(x, y)
         IN  <<m>> \o sorted(S \ {m})

\* Split a name on "/".
RECURSIVE SplitAcc(_, _, _)
SplitAcc(s, cur, acc) ==
    IF s = <<>> THEN Append(acc, cur)
    ELSE IF Head(s) = "/" THEN SplitAcc(Tail(s), <<>>, Append(acc, cur))
    ELSE SplitAcc(Tail(s), Append(cur, Head(s)), acc)

\* pathlib drops empty and "." components of a relative path segment.
PathParts(s) ==
    SelectSeq(SplitAcc(s, <<>>, <<>>), LAMBDA p : p # <<>> /\ p # <<".">>)

BuildDir_m(build_root, config) == build_root

\* build_root / config
BuildDir(build_root, config) == build_root \o PathParts(config)

\* mkdir(parents=True, exist_ok=True): the directory and its ancestors
\* below the build root.
MkdirCreates(build_root, dir) ==
    {SubSeq(dir, 1, n) : n \in (Len(build_root) + 1)..Len(dir)}

----------------------------------------------------------------------------
(* Functions of the script *)

RegularFiles_m(entries) == {n \in DOMAIN entries : entries[n] # "absent"}

\* p.name for p in config_root.iterdir() if p.is_file()
RegularFiles(entries) == {n \in DOMAIN entries : entries[n] = "file"}

list_configs_m(entries, selection) == sorted(RegularFiles(entries))

list_configs(entries, selection) ==
    IF selection # <<>> THEN selection
    ELSE sorted(RegularFiles(entries))

query_available_generators(probe) ==
    IF probe.error # "" THEN {} ELSE probe.names

GeneratorUnavailable_m(gens, generator) == FALSE

\* generators and args.generator not in generators
GeneratorUnavailable(gens, generator) == gens # {} /\ generator \notin gens

\* GENERATOR_TOOL_HINTS.get(generator); "" stands for None
ToolHint(generator) ==
    CASE generator = "Ninja" -> "ninja"
      [] generator = "Unix Makefiles" -> "make"
      [] OTHER -> ""

ParserError_m(kind) == [stderr |-> kind, exitCode |-> 1]

\* parser.error(message): usage and message to stderr, then exit status 2
ParserError(kind) == [stderr |-> kind, exitCode |-> 2]

CleanRequested_m(a, exists) == exists

\* args.clean and build_root.exists()
CleanRequested(a, exists) == a.clean /\ exists

ReturnCode_m(fails) == 0

\* `if failures: return 1` / `return 0`
ReturnCode(fails) == IF fails # <<>> THEN 1 ELSE 0

----------------------------------------------------------------------------
(* Derived observations *)

CmakeCalls == SelectSeq(calls, LAMBDA c : c[1] = "cmake")
MkdirCalls == SelectSeq(calls, LAMBDA c : c[1] = "mkdir")
RmtreeCalls == SelectSeq(calls, LAMBDA c : c[1] = "rmtree")
Attempted == [i \in 1..Len(CmakeCalls) |-> CmakeCalls[i][3]]
OutputsPrinted == SelectSeq(stdout, LAMBDA l : l[1] = "output")
SummaryPrinted == \E i \in 1..Len(stdout) : stdout[i][1] = "Summary"
FailedNames == [i \in 1..Len(failures) |-> failures[i][1]]

----------------------------------------------------------------------------
(* Initial states: the command line and the disk *)

TypeArgs == [configs : SeqsUpTo(Identifiers, MaxConfigs),
             generator : {""} \cup GeneratorNames,
             clean : BOOLEAN]

Init ==
    /\ args \in TypeArgs
    /\ env \in [configRootIsDir : BOOLEAN,
                entries : [FileNames -> EntryKinds],
                buildRootExisted : BOOLEAN,
                buildDirs0 : SUBSET {BuildDir(BuildRoot, NameA)}]
    /\ (~env.configRootIsDir => \A n \in FileNames : env.entries[n] = "absent")
    /\ (~env.buildRootExisted => env.buildDirs0 = {})
    /\ pc = "start"
    /\ generators = {}
    /\ buildRootExists = env.buildRootExisted
    /\ buildDirs = env.buildDirs0
    /\ configs = <<>>
    /\ idx = 0
    /\ build_dir = <<>>
    /\ ok = FALSE
    /\ output = <<>>
    /\ successes = <<>>
    /\ failures = <<>>
    /\ running = {}
    /\ outcomes = <<>>
    /\ calls = <<>>
    /\ stdout = <<>>
    /\ stderr = ""
    /\ exitCode = NoExit

----------------------------------------------------------------------------
(* main(), step by step *)

Exit(err) ==
    /\ pc' = "exited"
    /\ stderr' = err.stderr
    /\ exitCode' = err.exitCode

\* lines 129-146: the optional generator precondition
CheckGenerator ==
    /\ pc = "start"
    /\ \E probe \in Probes, path \in SUBSET Tools :
         IF args.generator = ""
         THEN /\ pc' = "check_root"
              /\ UNCHANGED <<generators, stderr, exitCode>>
         ELSE LET gens == query_available_generators(probe)
                  hint == ToolHint(args.generator)
              IN  /\ generators' = gens
                  /\ IF GeneratorUnavailable(gens, args.generator)
                     THEN Exit(ParserError("UnsupportedGenerator"))
                     ELSE IF hint # "" /\ hint \notin path
                     THEN Exit(ParserError("MissingCompanionTool"))
                     ELSE /\ pc' = "check_root"
                          /\ UNCHANGED <<stderr, exitCode>>
    /\ UNCHANGED <<args, env, buildRootExists, buildDirs, configs, idx,
                   build_dir, ok, output, successes, failures, running,
                   outcomes, calls, stdout>>

\* lines 152-153
CheckConfigRoot ==
    /\ pc = "check_root"
    /\ IF ~env.configRootIsDir
       THEN Exit(ParserError("DirectoryNotFound"))
       ELSE /\ pc' = "clean"
            /\ UNCHANGED <<stderr, exitCode>>
    /\ UNCHANGED <<args, env, generators, buildRootExists, buildDirs, configs,
                   idx, build_dir, ok, output, successes, failures, running,
                   outcomes, calls, stdout>>

\* lines 155-156
Clean ==
    /\ pc = "clean"
    /\ IF CleanRequested(args, buildRootExists)
       THEN /\ buildRootExists' = FALSE
            /\ buildDirs' = {}
            /\ calls' = Append(calls, <<"rmtree", BuildRoot>>)
       ELSE UNCHANGED <<buildRootExists, buildDirs, calls>>
    /\ pc' = "list"
    /\ UNCHANGED <<args, env, generators, configs, idx, build_dir, ok, output,
                   successes, failures, running, outcomes, stdout, stderr,
                   exitCode>>

\* lines 158-165
ListConfigs ==
    /\ pc = "list"
    /\ configs' = list_configs(env.entries, args.configs)
    /\ IF configs' = <<>>
       THEN /\ Exit([stderr |-> "NoConfigsFound", exitCode |-> 1])
            /\ UNCHANGED <<stdout, idx>>
       ELSE /\ stdout' = Append(stdout, <<"Testing", Len(configs')>>)
            /\ idx' = 1
            /\ pc' = "loop"
            /\ UNCHANGED <<stderr, exitCode>>
    /\ successes' = <<>>
    /\ failures' = <<>>
    /\ UNCHANGED <<args, env, generators, buildRootExists, buildDirs,
                   build_dir, ok, output, running, outcomes, calls>>

\* lines 167-168: next element of the for loop, or leave the loop
LoopHead ==
    /\ pc = "loop"
    /\ IF idx <= Len(configs)
       THEN /\ stdout' = Append(stdout, <<"header", configs[idx]>>)
            /\ pc' = "mkdir"
       ELSE /\ pc' = "summary"
            /\ UNCHANGED stdout
    /\ UNCHANGED <<args, env, generators, buildRootExists, buildDirs, configs,
                   idx, build_dir, ok, output, successes, failures, running,
                   outcomes, calls, stderr, exitCode>>

\* lines 73-74
MakeBuildDir ==
    /\ pc = "mkdir"
    /\ build_dir' = BuildDir(BuildRoot, configs[idx])
    /\ buildRootExists' = TRUE
    /\ buildDirs' = buildDirs \cup MkdirCreates(BuildRoot, build_dir')
    /\ calls' = Append(calls, <<"mkdir", build_dir'>>)
    /\ pc' = "launch"
    /\ UNCHANGED <<args, env, generators, configs, idx, ok, output, successes,
                   failures, running, outcomes, stdout, stderr, exitCode>>

\* lines 76-87: subprocess.run starts the child.  When the executable
\* cannot be started, OSError is raised; configure_config catches only
\* CalledProcessError (line 89) and main catches nothing, so the
\* interpreter prints a traceback and exits with status 1.
Launch ==
    /\ pc = "launch"
    /\ calls' = Append(calls, <<"cmake", build_dir, configs[idx]>>)
    /\ \E launched \in BOOLEAN :
         IF launched
         THEN /\ running' = running \cup {idx}
              /\ pc' = "wait"
              /\ UNCHANGED <<outcomes, stderr, exitCode>>
         ELSE /\ outcomes' = Append(outcomes, "oserror")
              /\ Exit([stderr |-> "Traceback", exitCode |-> 1])
              /\ UNCHANGED running
    /\ UNCHANGED <<args, env, generators, buildRootExists, buildDirs, configs,
                   idx, build_dir, ok, output, successes, failures, stdout>>

WaitForChild_m ==
    /\ pc = "wait"
    /\ \E status \in {0, 1} :
         /\ ok' = (status = 0)
         /\ output' = <<configs[idx], status>>
         /\ outcomes' = Append(outcomes, IF status = 0 THEN "ok" ELSE "nonzero")
    /\ pc' = "print"
    /\ UNCHANGED <<args, env, generators, buildRootExists, buildDirs, configs,
                   idx, build_dir, successes, failures, running, calls, stdout,
                   stderr, exitCode>>

\* lines 81-90: subprocess.run blocks until the child has exited;
\* check=True turns a non-zero status into CalledProcessError.
WaitForChild ==
    /\ pc = "wait"
    /\ \E status \in {0, 1} :
         /\ ok' = (status = 0)
         /\ output' = <<configs[idx], status>>
         /\ outcomes' = Append(outcomes, IF status = 0 THEN "ok" ELSE "nonzero")
    /\ running' = running \ {idx}
    /\ pc' = "print"
    /\ UNCHANGED <<args, env, generators, buildRootExists, buildDirs, configs,
                   idx, build_dir, successes, failures, calls, stdout, stderr,
                   exitCode>>

\* line 170
PrintOutput ==
    /\ pc = "print"
    /\ stdout' = Append(stdout, <<"output", output>>)
    /\ pc' = "record"
    /\ UNCHANGED <<args, env, generators, buildRootExists, buildDirs, configs,
                   idx, build_dir, ok, output, successes, failures, running,
                   outcomes, calls, stderr, exitCode>>

RecordResult_m ==
    /\ pc = "record"
    /\ IF ok
       THEN /\ successes' = <<configs[idx]>> \o successes
            /\ UNCHANGED failures
       ELSE /\ failures' = <<<<configs[idx], output>>>> \o failures
            /\ UNCHANGED successes
    /\ idx' = idx + 1
    /\ pc' = "loop"
    /\ UNCHANGED <<args, env, generators, buildRootExists, buildDirs, configs,
                   build_dir, ok, output, running, outcomes, calls, stdout,
                   stderr, exitCode>>

\* lines 171-174
RecordResult ==
    /\ pc = "record"
    /\ IF ok
       THEN /\ successes' = Append(successes, configs[idx])
            /\ UNCHANGED failures
       ELSE /\ failures' = Append(failures, <<configs[idx], output>>)
            /\ UNCHANGED successes
    /\ idx' = idx + 1
    /\ pc' = "loop"
    /\ UNCHANGED <<args, env, generators, buildRootExists, buildDirs, configs,
                   build_dir, ok, output, running, outcomes, calls, stdout,
                   stderr, exitCode>>

\* lines 176-183
Summary ==
    /\ pc = "summary"
    /\ stdout' = Append(stdout, <<"Summary", successes, FailedNames>>)
    /\ pc' = "return"
    /\ UNCHANGED <<args, env, generators, buildRootExists, buildDirs, configs,
                   idx, build_dir, ok, output, successes, failures, running,
                   outcomes, calls, stderr, exitCode>>

\* lines 185-192
Return ==
    /\ pc = "return"
    /\ stdout' = IF failures # <<>> THEN Append(stdout, <<"hint">>) ELSE stdout
    /\ exitCode' = ReturnCode(failures)
    /\ pc' = "exited"
    /\ UNCHANGED <<args, env, generators, buildRootExists, buildDirs, configs,
                   idx, build_dir, ok, output, successes, failures, running,
                   outcomes, calls, stderr>>

Next ==
    \/ CheckGenerator
    \/ CheckConfigRoot
    \/ Clean
    \/ ListConfigs
    \/ LoopHead
    \/ MakeBuildDir
    \/ Launch
    \/ WaitForChild
    \/ PrintOutput
    \/ RecordResult
    \/ Summary
    \/ Return

Spec == Init /\ [][Next]_vars

----------------------------------------------------------------------------
(* Properties *)

Exited == pc = "exited"

\* the config root holds no regular file (it may hold directories)
NoRegularFile == \A n \in DOMAIN env.entries : env.entries[n] # "file"

PreconditionErrors ==
    {"UnsupportedGenerator", "MissingCompanionTool", "DirectoryNotFound", "NoConfigsFound"}

ParserErrors == {"UnsupportedGenerator", "MissingCompanionTool", "DirectoryNotFound"}

\* the subsequence of L at the positions whose outcome is (wantOk) or is not "ok"
RECURSIVE Pick(_, _, _)
Pick(L, O, wantOk) ==
    IF L = <<>> \/ O = <<>> THEN <<>>
    ELSE (IF (Head(O) = "ok") = wantOk THEN <<Head(L)>> ELSE <<>>)
             \o Pick(Tail(L), Tail(O), wantOk)

IsPrefix(s, t) == Len(s) <= Len(t) /\ SubSeq(t, 1, Len(s)) = s

\* C1: a configure invocation that returns non-zero or cannot be launched is
\* recorded as a failure, every later identifier is still attempted and the
\* run reaches the summary.  Stated on finished runs that invoked the tool.
C1_FailureNeverFatal ==
    (Exited /\ outcomes # <<>>) =>
        /\ SummaryPrinted
        /\ Attempted = configs
        /\ FailedNames = Pick(configs, outcomes, FALSE)

\* C2: a run ended by a fatal enumeration/precondition error exits with
\* status 1, and no run exits with a status other than 0 or 1.
C2_FatalExitsOne ==
    Exited =>
        /\ exitCode \in {0, 1}
        /\ (stderr \in PreconditionErrors => exitCode = 1)

\* C2 (amended): errors reported through parser.error (unsupported
\* generator, missing companion tool, missing config directory) exit with
\* status 2, "no configuration files found" exits with status 1, and no run
\* exits with a status other than 0, 1 or 2.
C2_FatalExitStatus ==
    Exited =>
        /\ exitCode \in {0, 1, 2}
        /\ (stderr \in ParserErrors => exitCode = 2)
        /\ (stderr = "NoConfigsFound" => exitCode = 1)

C2_Witness == Exited /\ stderr = "DirectoryNotFound" /\ exitCode = 2

\* C3: a requested generator that is not in the capability set the probe
\* returned (the empty set of a failed probe included) aborts the run before
\* the main loop, with zero configure invocations.
C3_AbsentGeneratorAborts ==
    (pc # "start" /\ args.generator # "" /\ args.generator \notin generators) =>
        /\ Exited
        /\ stderr \in ParserErrors
        /\ CmakeCalls = <<>>

\* C3 (amended): a requested generator that is not in a NON-EMPTY capability
\* set aborts the run before the main loop, with zero configure invocations;
\* when the probe yields the empty set the membership check is skipped.
C3_AbsentFromNonEmptyAborts ==
    (pc # "start" /\ args.generator # "" /\ generators # {}
        /\ args.generator \notin generators) =>
        /\ Exited
        /\ stderr = "UnsupportedGenerator"
        /\ calls = <<>>
        /\ stdout = <<>>

C3_Witness ==
    /\ Exited
    /\ args.generator = "Xcode"
    /\ generators = {"Ninja"}
    /\ stderr = "UnsupportedGenerator"
    /\ args.configs # <<>>
    /\ env.configRootIsDir

\* C4: at the summary there is exactly one result per position of the
\* identifier list: the succeeded list is the subsequence that succeeded, the
\* failed list the subsequence that failed, both in processed order, and
\* their lengths add up to the length of the list.
C4_OneResultPerIdentifier ==
    SummaryPrinted =>
        /\ Len(outcomes) = Len(configs)
        /\ successes = Pick(configs, outcomes, TRUE)
        /\ FailedNames = Pick(configs, outcomes, FALSE)
        /\ Len(successes) + Len(failures) = Len(configs)
        /\ \E i \in 1..Len(stdout) :
             stdout[i] = <<"Summary", successes, FailedNames>>

C4_Witness ==
    /\ SummaryPrinted
    /\ configs = <<NameA, NameB, NameC>>
    /\ outcomes = <<"ok", "nonzero", "ok">>
    /\ successes = <<NameA, NameC>>
    /\ FailedNames = <<NameB>>

\* C5: when the main loop completed, the exit status is 0 iff every
\* invocation succeeded and 1 iff at least one failed.
C5_ExitCodePolicy ==
    (Exited /\ SummaryPrinted) =>
        /\ (exitCode = 0 <=> \A i \in 1..Len(outcomes) : outcomes[i] = "ok")
        /\ (exitCode = 1 <=> \E i \in 1..Len(outcomes) : outcomes[i] # "ok")

C5_Witness ==
    /\ Exited
    /\ SummaryPrinted
    /\ Len(configs) = 3
    /\ outcomes = <<"ok", "ok", "nonzero">>
    /\ exitCode = 1

C7_WipeOnlyOnCleanBeforeRun ==
    /\ Len(RmtreeCalls) <= 1
    /\ (RmtreeCalls # <<>> =>
            (args.clean /\ env.buildRootExisted /\ calls[1][1] = "rmtree"))
    /\ ((args.clean /\ env.buildRootExisted /\ pc \notin {"start", "check_root", "clean"}
            /\ stderr \notin ParserErrors) => Len(RmtreeCalls) = 1)
    /\ \A i \in 1..Len(MkdirCalls) :
            (buildRootExists /\ MkdirCalls[i][2] \in buildDirs)
    /\ (~args.clean =>
            (env.buildDirs0 \subseteq buildDirs
                /\ (env.buildRootExisted => buildRootExists)))

C7_Witness ==
    /\ Exited
    /\ args.clean
    /\ env.buildDirs0 = {BuildDir(BuildRoot, NameA)}
    /\ Len(RmtreeCalls) = 1
    /\ Len(MkdirCalls) = 2
    /\ buildDirs = {BuildDir(BuildRoot, NameB), BuildDir(BuildRoot, NameC)}

\* C8: with a config root that exists but holds no regular file, and no
\* explicit identifiers, the run exits with status 1 and performs zero
\* configure invocations (no directory created, no summary printed).
C8_EmptyRootExitsOne ==
    (Exited /\ env.configRootIsDir /\ NoRegularFile /\ args.configs = <<>>) =>
        /\ exitCode = 1
        /\ calls = <<>>
        /\ ~SummaryPrinted

\* C8 (amended): in that situation the run performs zero configure
\* invocations, creates no directory and prints no summary; it exits with
\* status 1 ("no configuration files found") unless a --generator
\* precondition check had already aborted it through parser.error, which
\* exits with status 2.
C8_EmptyRootNoInvocation ==
    (env.configRootIsDir /\ NoRegularFile /\ args.configs = <<>>) =>
        /\ CmakeCalls = <<>>
        /\ MkdirCalls = <<>>
        /\ stdout = <<>>
        /\ (Exited =>
                \/ (stderr = "NoConfigsFound" /\ exitCode = 1)
                \/ (args.generator # "" /\ exitCode = 2
                      /\ stderr \in {"UnsupportedGenerator", "MissingCompanionTool"}))

C8_Witness ==
    /\ Exited
    /\ env.configRootIsDir
    /\ env.entries[NameA] = "dir"
    /\ NoRegularFile
    /\ args.configs = <<>>
    /\ stderr = "NoConfigsFound"
    /\ exitCode = 1

\* the invocations whose child process was started
Launched ==
    {i \in 1..Len(CmakeCalls) : i > Len(outcomes) \/ outcomes[i] # "oserror"}

\* C9: the output directories of any two distinct invocations of one run
\* differ, explicit identifier lists included.
C9_DirectoriesNeverCollide ==
    \A i, j \in Launched :
        i # j => CmakeCalls[i][2] # CmakeCalls[j][2]

\* C9 (amended): when the identifier list is enumerated from the config
\* directory, the output directories of any two distinct invocations differ;
\* an explicit list that repeats an identifier, or names one directory in two
\* spellings, reuses the directory.
C9_EnumeratedDirectoriesDistinct ==
    args.configs = <<>> =>
        /\ \A i, j \in Launched :
               i # j => CmakeCalls[i][2] # CmakeCalls[j][2]
        /\ \A i \in 1..Len(CmakeCalls) :
               /\ Len(CmakeCalls[i][2]) = Len(BuildRoot) + 1
               /\ IsPrefix(BuildRoot, CmakeCalls[i][2])

C9_Witness ==
    /\ args.configs = <<>>
    /\ Launched = 1..3
    /\ Cardinality({CmakeCalls[i][2] : i \in 1..3}) = 3

\* C10: execution is sequential and streaming: at most one configure process
\* runs at any time, the invocation for the next identifier starts only after
\* the previous one has completed and its output has been printed, and the
\* summary is printed only after every identifier has been processed.
C10_SequentialStreaming ==
    /\ Cardinality(running) <= 1
    /\ Len(CmakeCalls) <= Len(OutputsPrinted) + 1
    /\ (running # {} =>
            (pc = "wait" /\ running = {idx}
                /\ Len(OutputsPrinted) = idx - 1 /\ Len(outcomes) = idx - 1))
    /\ \A i \in 1..Len(OutputsPrinted) : OutputsPrinted[i][2][1] = configs[i]
    /\ (SummaryPrinted =>
            (running = {} /\ Len(OutputsPrinted) = Len(configs)
                /\ Attempted = configs /\ idx = Len(configs) + 1))

C10_Witness ==
    /\ pc = "wait"
    /\ idx = 3
    /\ running = {3}
    /\ Len(OutputsPrinted) = 2

====
